---------------------------- MODULE Spec2Model ----------------------------
(***************************************************************************)
(* Smart email search workflow (backend/workflows/search_workflow.py):     *)
(* the seven-stage pipeline PARSE -> EMBED -> LEXICAL -> SEMANTIC -> FUSE  *)
(* -> FILTER -> FINALIZE run by SmartSearchWorkflow.search_emails, with    *)
(* its collaborators (message store, embedding service, Qdrant service).   *)
(*                                                                         *)
(* Text is a sequence of one-character strings, so that the regular        *)
(* expressions and substring tests of the code are computed character by   *)
(* character.  A nullable value (Python None / SQL NULL) is a sequence of  *)
(* length 0 (None) or 1 (the value).  A score is an exact rational         *)
(* <<numerator, denominator>> in lowest terms.                             *)
(***************************************************************************)
EXTENDS Integers, Sequences, FiniteSets, TLC

(***************************************************************************)
(* Nullable values                                                         *)
(***************************************************************************)
None == <<>>
Some(v) == <<v>>
IsNone(o) == Len(o) = 0
Val(o) == o[1]

(***************************************************************************)
(* Characters and Python's str methods                                     *)
(***************************************************************************)
LowerAlpha == <<"a","b","c","d","e","f","g","h","i","j","k","l","m",
                "n","o","p","q","r","s","t","u","v","w","x","y","z">>
UpperAlpha == <<"A","B","C","D","E","F","G","H","I","J","K","L","M",
                "N","O","P","Q","R","S","T","U","V","W","X","Y","Z">>
Letters == {LowerAlpha[i] : i \in 1..26} \cup {UpperAlpha[i] : i \in 1..26}
Digits == {"0","1","2","3","4","5","6","7","8","9"}
\* \w of the re module (ASCII part)
WordChars == Letters \cup Digits \cup {"_"}
\* \s of the re module
SpaceChars == {" ", "\t", "\n", "\r"}
\* [a-zA-Z0-9._%+-]
EmailLocalChars == Letters \cup Digits \cup {".", "_", "%", "+", "-"}
\* [a-zA-Z0-9.-]
EmailDomainChars == Letters \cup Digits \cup {".", "-"}

lower_char(c) ==
    IF \E i \in 1..26 : UpperAlpha[i] = c
    THEN LowerAlpha[CHOOSE i \in 1..26 : UpperAlpha[i] = c]
    ELSE c

\* str.lower()
str_lower(s) == [i \in 1..Len(s) |-> lower_char(s[i])]

\* str.strip()
str_strip(s) ==
    LET idx == {i \in 1..Len(s) : s[i] \notin SpaceChars} IN
    IF idx = {} THEN <<>>
    ELSE SubSeq(s, CHOOSE a \in idx : \A b \in idx : a <= b,
                   CHOOSE a \in idx : \A b \in idx : a >= b)

\* s[i:].startswith(lit)
StartsAt(s, i, lit) ==
    /\ i >= 1
    /\ i + Len(lit) - 1 <= Len(s)
    /\ \A k \in 1..Len(lit) : s[i + k - 1] = lit[k]

\* lit in s
str_contains(s, lit) == \E i \in 1..(Len(s) + 1) : StartsAt(s, i, lit)

RECURSIVE str_replace_from(_, _, _, _)
str_replace_from(s, old, new, i) ==
    IF i > Len(s) THEN <<>>
    ELSE IF StartsAt(s, i, old)
         THEN new \o str_replace_from(s, old, new, i + Len(old))
         ELSE <<s[i]>> \o str_replace_from(s, old, new, i + 1)

\* str.replace(old, new), old non-empty
str_replace(s, old, new) == str_replace_from(s, old, new, 1)

\* str.split(): the maximal runs of non-whitespace characters
RECURSIVE str_split_from(_, _, _)
str_split_from(s, i, cur) ==
    IF i > Len(s) THEN (IF cur = <<>> THEN <<>> ELSE <<cur>>)
    ELSE IF s[i] \in SpaceChars
         THEN (IF cur = <<>> THEN <<>> ELSE <<cur>>) \o str_split_from(s, i + 1, <<>>)
         ELSE str_split_from(s, i + 1, Append(cur, s[i]))

str_split(s) == str_split_from(s, 1, <<>>)

\* ' '.join(words)
RECURSIVE str_join(_)
str_join(words) ==
    IF Len(words) = 0 THEN <<>>
    ELSE IF Len(words) = 1 THEN words[1]
    ELSE words[1] \o <<" ">> \o str_join(Tail(words))

(***************************************************************************)
(* The regular expressions of _parse_query.  A pattern is a record whose   *)
(* field k names the expression; re_match(p, s, i) is the position just    *)
(* after the match of p that starts at position i of s (the one the        *)
(* backtracking matcher of the re module finds), or 0 when p does not      *)
(* match at i.                                                             *)
(***************************************************************************)
s_from == <<"f","r","o","m">>
s_sender == <<"s","e","n","d","e","r">>

IsWordAt(s, i) == i >= 1 /\ i <= Len(s) /\ s[i] \in WordChars

\* \b between positions i-1 and i
WordBoundary(s, i) == IsWordAt(s, i - 1) # IsWordAt(s, i)

\* the position after the longest run of characters of class cls starting at i
RECURSIVE RunEnd(_, _, _)
RunEnd(s, i, cls) ==
    IF i <= Len(s) /\ s[i] \in cls THEN RunEnd(s, i + 1, cls) ELSE i

\* [a-zA-Z0-9._%+-]+@[a-zA-Z0-9.-]+\.[a-zA-Z]{2,} at i: the local part is the
\* longest run before an @, the domain backtracks from its longest run to the
\* last dot that is followed by two letters, the top-level part is greedy
EmailEnd(s, i) ==
    LET at == RunEnd(s, i, EmailLocalChars) IN
    IF at = i \/ at > Len(s) \/ s[at] # "@" THEN 0
    ELSE LET dEnd == RunEnd(s, at + 1, EmailDomainChars)
             dots == {q \in (at + 2)..(dEnd - 1) :
                        /\ s[q] = "."
                        /\ q + 2 <= Len(s)
                        /\ s[q + 1] \in Letters
                        /\ s[q + 2] \in Letters}
         IN IF dots = {} THEN 0
            ELSE RunEnd(s, (CHOOSE q \in dots : \A r \in dots : q >= r) + 1, Letters)

\* \s+ at i, then the rest: the position after the whitespace run, 0 if none
SpacesEnd(s, i) == LET e == RunEnd(s, i, SpaceChars) IN IF e = i THEN 0 ELSE e

\* \blit\b at i
WordLitEnd(s, i, lit) ==
    IF StartsAt(s, i, lit) /\ WordBoundary(s, i) /\ WordBoundary(s, i + Len(lit))
    THEN i + Len(lit) ELSE 0

\* \ba\s+b\b at i
PhraseEnd(s, i, a, b) ==
    IF StartsAt(s, i, a) /\ WordBoundary(s, i)
    THEN LET sp == SpacesEnd(s, i + Len(a)) IN
         IF sp # 0 /\ StartsAt(s, sp, b) /\ WordBoundary(s, sp + Len(b))
         THEN sp + Len(b) ELSE 0
    ELSE 0

MonthNames == <<
    <<"j","a","n","u","a","r","y">>, <<"f","e","b","r","u","a","r","y">>,
    <<"m","a","r","c","h">>, <<"a","p","r","i","l">>, <<"m","a","y">>,
    <<"j","u","n","e">>, <<"j","u","l","y">>, <<"a","u","g","u","s","t">>,
    <<"s","e","p","t","e","m","b","e","r">>, <<"o","c","t","o","b","e","r">>,
    <<"n","o","v","e","m","b","e","r">>, <<"d","e","c","e","m","b","e","r">> >>

\* \b(january|...|december)\s+(\d{4})\b at i with month number m
MonthYearEndFor(s, i, m) ==
    LET name == MonthNames[m] IN
    IF StartsAt(s, i, name) /\ WordBoundary(s, i)
    THEN LET sp == SpacesEnd(s, i + Len(name)) IN
         IF /\ sp # 0
            /\ sp + 3 <= Len(s)
            /\ \A k \in 0..3 : s[sp + k] \in Digits
            /\ WordBoundary(s, sp + 4)
         THEN sp + 4 ELSE 0
    ELSE 0

MonthYearEnd(s, i) ==
    LET ms == {m \in 1..12 : MonthYearEndFor(s, i, m) # 0} IN
    IF ms = {} THEN 0
    ELSE MonthYearEndFor(s, i, CHOOSE m \in ms : \A n \in ms : m <= n)

ConnectorWords == <<
    <<"a","b","o","u","t">>, <<"r","e","g","a","r","d","i","n","g">>,
    <<"r","e",":">>, <<"f","w",":">> >>

\* \b(about|regarding|re:|fw:)\b at i
ConnectorEnd(s, i) ==
    LET ks == {k \in 1..Len(ConnectorWords) : WordLitEnd(s, i, ConnectorWords[k]) # 0} IN
    IF ks = {} THEN 0
    ELSE WordLitEnd(s, i, ConnectorWords[CHOOSE k \in ks : \A j \in ks : k <= j])

re_match(p, s, i) ==
    CASE p.k = "from_email" ->
            \* from\s+(<email>)
            IF StartsAt(s, i, s_from)
            THEN LET sp == SpacesEnd(s, i + 4) IN IF sp = 0 THEN 0 ELSE EmailEnd(s, sp)
            ELSE 0
      [] p.k = "from_word" ->
            \* from\s+(\w+)
            IF StartsAt(s, i, s_from)
            THEN LET sp == SpacesEnd(s, i + 4) IN
                 IF sp = 0 THEN 0
                 ELSE LET e == RunEnd(s, sp, WordChars) IN IF e = sp THEN 0 ELSE e
            ELSE 0
      [] p.k = "from_lit" ->
            \* 'from\s+' + re.escape(match)
            IF StartsAt(s, i, s_from)
            THEN LET sp == SpacesEnd(s, i + 4) IN
                 IF sp # 0 /\ StartsAt(s, sp, p.w) THEN sp + Len(p.w) ELSE 0
            ELSE 0
      [] p.k = "sender_email" ->
            \* sender:?\s*(<email>)
            IF StartsAt(s, i, s_sender)
            THEN LET c == IF i + 6 <= Len(s) /\ s[i + 6] = ":" THEN i + 7 ELSE i + 6
                     viaColon == EmailEnd(s, RunEnd(s, c, SpaceChars))
                 IN IF viaColon # 0 THEN viaColon
                    ELSE EmailEnd(s, RunEnd(s, i + 6, SpaceChars))
            ELSE 0
      [] p.k = "word" -> WordLitEnd(s, i, p.w)
      [] p.k = "phrase" -> PhraseEnd(s, i, p.a, p.b)
      [] p.k = "month_year" -> MonthYearEnd(s, i)
      [] p.k = "lit" -> IF StartsAt(s, i, p.w) THEN i + Len(p.w) ELSE 0
      [] p.k = "spaces" -> SpacesEnd(s, i)
      [] p.k = "connector" -> ConnectorEnd(s, i)

\* the start of the text captured by group 1 of a match of p at i
re_group_start(p, s, i) ==
    CASE p.k \in {"from_email", "from_word"} -> RunEnd(s, i + 4, SpaceChars)
      [] p.k = "sender_email" ->
            LET c == IF i + 6 <= Len(s) /\ s[i + 6] = ":" THEN i + 7 ELSE i + 6 IN
            IF EmailEnd(s, RunEnd(s, c, SpaceChars)) # 0
            THEN RunEnd(s, c, SpaceChars)
            ELSE RunEnd(s, i + 6, SpaceChars)
      [] OTHER -> i

\* re.search(p, s): the start of the leftmost match, 0 when there is none
re_search(p, s) ==
    LET ms == {i \in 1..Len(s) : re_match(p, s, i) # 0} IN
    IF ms = {} THEN 0 ELSE CHOOSE i \in ms : \A j \in ms : i <= j

\* re.findall(p, s): group 1 of the non-overlapping matches, left to right
RECURSIVE re_findall_from(_, _, _)
re_findall_from(p, s, i) ==
    IF i > Len(s) THEN <<>>
    ELSE LET e == re_match(p, s, i) IN
         IF e # 0
         THEN <<SubSeq(s, re_group_start(p, s, i), e - 1)>> \o re_findall_from(p, s, e)
         ELSE re_findall_from(p, s, i + 1)

re_findall(p, s) == re_findall_from(p, s, 1)

\* re.sub(p, repl, s): every non-overlapping match replaced, left to right
RECURSIVE re_sub_from(_, _, _, _)
re_sub_from(p, repl, s, i) ==
    IF i > Len(s) THEN <<>>
    ELSE LET e == re_match(p, s, i) IN
         IF e # 0
         THEN repl \o re_sub_from(p, repl, s, e)
         ELSE <<s[i]>> \o re_sub_from(p, repl, s, i + 1)

re_sub(p, repl, s) == re_sub_from(p, repl, s, 1)

(***************************************************************************)
(* datetime: an instant is <<ordinal, second>>, the proleptic Gregorian    *)
(* ordinal of its day (date.toordinal) and the second of that day, in UTC. *)
(* Instants are whole seconds.                                             *)
(***************************************************************************)
MINYEAR == 1
MAXYEAR == 9999

is_leap(y) == y % 4 = 0 /\ (y % 100 # 0 \/ y % 400 = 0)

days_before_year(y) ==
    (y - 1) * 365 + ((y - 1) \div 4) - ((y - 1) \div 100) + ((y - 1) \div 400)

days_in_month(y, m) ==
    IF m = 2 THEN (IF is_leap(y) THEN 29 ELSE 28)
    ELSE IF m \in {4, 6, 9, 11} THEN 30 ELSE 31

RECURSIVE days_before_month(_, _)
days_before_month(y, m) ==
    IF m = 1 THEN 0 ELSE days_before_month(y, m - 1) + days_in_month(y, m - 1)

ymd2ord(y, m, d) == days_before_year(y) + days_before_month(y, m) + d

\* <<year, month, day>> of an ordinal
ord2ymd(n) ==
    LET y == CHOOSE c \in (n \div 366)..((n \div 365) + 1) :
                 c >= 1 /\ days_before_year(c) < n /\ n <= days_before_year(c + 1)
        r == n - days_before_year(y)
        m == CHOOSE c \in 1..12 :
                 days_before_month(y, c) < r /\ r <= days_before_month(y, c) + days_in_month(y, c)
    IN <<y, m, r - days_before_month(y, m)>>

\* a < b, a <= b on instants
dt_lt(a, b) == a[1] < b[1] \/ (a[1] = b[1] /\ a[2] < b[2])
dt_gt(a, b) == dt_lt(b, a)

\* dt - timedelta(days=n)
dt_minus_days(dt, n) == <<dt[1] - n, dt[2]>>

\* dt.replace(hour=h, minute=mi, second=sec)
dt_replace_time(dt, h, mi, sec) == <<dt[1], h * 3600 + mi * 60 + sec>>

\* dt.replace(day=1)
dt_replace_day1(dt) == <<dt[1] - (ord2ymd(dt[1])[3] - 1), dt[2]>>

\* dt.weekday(): Monday is 0
dt_weekday(dt) == (dt[1] + 6) % 7

\* datetime.isoformat(): the fields of the ISO 8601 text
\* YYYY-MM-DDTHH:MM:SS+00:00, as <<year, month, day, hour, minute, second>>
isoformat(dt) ==
    LET ymd == ord2ymd(dt[1]) IN
    <<ymd[1], ymd[2], ymd[3], dt[2] \div 3600, (dt[2] % 3600) \div 60, dt[2] % 60>>

\* datetime.fromisoformat()
fromisoformat(iso) ==
    <<ymd2ord(iso[1], iso[2], iso[3]), iso[4] * 3600 + iso[5] * 60 + iso[6]>>

\* int() of a run of decimal digits
RECURSIVE int_of(_)
int_of(ds) ==
    IF Len(ds) = 0 THEN 0
    ELSE int_of(SubSeq(ds, 1, Len(ds) - 1)) * 10
         + (CHOOSE v \in 0..9 : <<"0","1","2","3","4","5","6","7","8","9">>[v + 1] = ds[Len(ds)])

(***************************************************************************)
(* SearchFilters and _parse_query                                          *)
(***************************************************************************)
\* SearchFilters(): the dataclass defaults
EmptyFilters ==
    [sender_emails |-> <<>>, date_from |-> None, date_to |-> None,
     labels |-> <<>>, has_attachments |-> None, is_important |-> None,
     keywords |-> <<>>]

sender_patterns == << [k |-> "from_email"], [k |-> "from_word"], [k |-> "sender_email"] >>

\* the body of "for match in matches" for one sender pattern; acc is
\* [query, sender_emails, keywords]
RECURSIVE sender_matches(_, _, _)
sender_matches(p, matches, acc) ==
    IF Len(matches) = 0 THEN acc
    ELSE LET match == matches[1] IN
         sender_matches(p, Tail(matches),
            IF str_contains(match, <<"@">>)
            THEN [acc EXCEPT !.sender_emails = Append(@, match),
                             !.query = re_sub(p, <<>>, @)]
            ELSE [acc EXCEPT !.keywords = Append(@, match),
                             !.query = re_sub([k |-> "from_lit", w |-> match], <<>>, @)])

\* "for pattern in sender_patterns"
RECURSIVE sender_loop(_, _)
sender_loop(i, acc) ==
    IF i > Len(sender_patterns) THEN acc
    ELSE sender_loop(i + 1,
            sender_matches(sender_patterns[i], re_findall(sender_patterns[i], acc.query), acc))

\* date_patterns: the pattern and the (date_from, date_to) pair of each entry,
\* in the dict's insertion order
date_patterns(today) == <<
    [p |-> [k |-> "word", w |-> <<"t","o","d","a","y">>],
     from |-> dt_replace_time(today, 0, 0, 0), to |-> today],
    [p |-> [k |-> "word", w |-> <<"y","e","s","t","e","r","d","a","y">>],
     from |-> dt_replace_time(dt_minus_days(today, 1), 0, 0, 0),
     to |-> dt_replace_time(dt_minus_days(today, 1), 23, 59, 59)],
    [p |-> [k |-> "phrase", a |-> <<"l","a","s","t">>, b |-> <<"w","e","e","k">>],
     from |-> dt_minus_days(today, 7), to |-> today],
    [p |-> [k |-> "phrase", a |-> <<"t","h","i","s">>, b |-> <<"w","e","e","k">>],
     from |-> dt_minus_days(today, dt_weekday(today)), to |-> today],
    [p |-> [k |-> "phrase", a |-> <<"l","a","s","t">>, b |-> <<"m","o","n","t","h">>],
     from |-> dt_minus_days(today, 30), to |-> today],
    [p |-> [k |-> "phrase", a |-> <<"t","h","i","s">>, b |-> <<"m","o","n","t","h">>],
     from |-> dt_replace_day1(today), to |-> today],
    [p |-> [k |-> "phrase", a |-> <<"l","a","s","t">>, b |-> <<"y","e","a","r">>],
     from |-> dt_minus_days(today, 365), to |-> today] >>

\* "for pattern, (date_from, date_to) in date_patterns.items()" over the
\* entries dp from the i-th on: the first entry that matches sets both dates,
\* is stripped, and ends the loop
RECURSIVE date_scan(_, _, _)
date_scan(dp, i, acc) ==
    IF i > Len(dp) THEN acc
    ELSE IF re_search(dp[i].p, acc.query) # 0
         THEN [acc EXCEPT !.date_from = Some(dp[i].from),
                          !.date_to = Some(dp[i].to),
                          !.query = re_sub(dp[i].p, <<>>, @)]
         ELSE date_scan(dp, i + 1, acc)

date_loop(today, acc) == date_scan(date_patterns(today), 1, acc)

\* datetime(year, month_num, 1) and the first day of the next month.
\* datetime() raises ValueError for a year outside MINYEAR..MAXYEAR: the
\* result then has raised = TRUE.
month_year_dates(acc, matched, month_num, year) ==
    LET toYear == IF month_num = 12 THEN year + 1 ELSE year
        toMonth == IF month_num = 12 THEN 1 ELSE month_num + 1
    IN IF year < MINYEAR \/ year > MAXYEAR \/ toYear > MAXYEAR
       THEN [acc EXCEPT !.raised = TRUE]
       ELSE [acc EXCEPT
               !.date_from = Some(<<ymd2ord(year, month_num, 1), 0>>),
               !.date_to = Some(<<ymd2ord(toYear, toMonth, 1), 0>>),
               !.query = re_sub([k |-> "lit", w |-> matched], <<>>, @)]

\* month_match.groups() for the match of q from i to e, and match.group()
month_year_groups(acc, q, i, e) ==
    month_year_dates(acc, SubSeq(q, i, e - 1),
                     CHOOSE m \in 1..12 : MonthYearEndFor(q, i, m) = e,
                     int_of(SubSeq(q, e - 4, e - 1)))

\* "if month_match:" for the leftmost match, which starts at i (0: none)
month_year_at(acc, i) ==
    IF i = 0 THEN acc ELSE month_year_groups(acc, acc.query, i, MonthYearEnd(acc.query, i))

\* "Extract specific month/year"
month_year(acc) == month_year_at(acc, re_search([k |-> "month_year"], acc.query))

s_important == <<"i","m","p","o","r","t","a","n","t">>
s_attachment == <<"a","t","t","a","c","h","m","e","n","t">>
s_attachments == <<"a","t","t","a","c","h","m","e","n","t","s">>

\* "Extract label/category filters"
flags(acc) ==
    LET a1 == IF str_contains(acc.query, s_important)
              THEN [acc EXCEPT !.is_important = Some(TRUE),
                               !.query = str_replace(@, s_important, <<>>)]
              ELSE acc
    IN IF str_contains(a1.query, s_attachment)
       THEN [a1 EXCEPT !.has_attachments = Some(TRUE),
                       !.query = str_replace(str_replace(@, s_attachment, <<>>),
                                             s_attachments, <<>>)]
       ELSE a1

label_patterns == <<
    [w |-> <<"i","n","b","o","x">>, label |-> "INBOX"],
    [w |-> <<"s","e","n","t">>, label |-> "SENT"],
    [w |-> <<"d","r","a","f","t">>, label |-> "DRAFT"],
    [w |-> <<"s","p","a","m">>, label |-> "SPAM"],
    [w |-> <<"t","r","a","s","h">>, label |-> "TRASH"] >>

\* "for pattern, label in label_patterns"
RECURSIVE label_loop(_, _)
label_loop(i, acc) ==
    IF i > Len(label_patterns) THEN acc
    ELSE LET p == [k |-> "word", w |-> label_patterns[i].w] IN
         label_loop(i + 1,
            IF re_search(p, acc.query) # 0
            THEN [acc EXCEPT !.labels = Append(@, label_patterns[i].label),
                             !.query = re_sub(p, <<>>, @)]
            ELSE acc)

\* "Clean up the query"
clean_up(q) ==
    str_strip(re_sub([k |-> "connector"], <<>>,
                     str_strip(re_sub([k |-> "spaces"], <<" ">>, q))))

\* [word.strip() for word in query.split() if len(word.strip()) > 2]
remaining_keywords(q) ==
    LET ws == str_split(q) IN SelectSeq(ws, LAMBDA w : Len(str_strip(w)) > 2)

\* "query = state['query'].lower().strip()" and "filters = SearchFilters()"
parse_start(query) ==
    [query |-> str_strip(str_lower(query)), raised |-> FALSE,
     sender_emails |-> <<>>, keywords |-> <<>>,
     date_from |-> None, date_to |-> None, labels |-> <<>>,
     has_attachments |-> None, is_important |-> None]

\* "Determine search type"
search_type_of(filters, cleaned_query) ==
    IF Len(cleaned_query) > 3
    THEN (IF Len(filters.sender_emails) > 0 \/ ~IsNone(filters.date_from)
             \/ Len(filters.labels) > 0
          THEN "filtered" ELSE "hybrid")
    ELSE "keyword"

\* "filters.keywords = keywords", the cleaned query and the search type
parse_assign(raised, acc, q, keywords) ==
    LET cleaned == IF Len(keywords) > 0 THEN str_join(keywords) ELSE q
        filters == [sender_emails |-> acc.sender_emails, date_from |-> acc.date_from,
                    date_to |-> acc.date_to, labels |-> acc.labels,
                    has_attachments |-> acc.has_attachments,
                    is_important |-> acc.is_important, keywords |-> keywords]
    IN [raised |-> raised, filters |-> filters, cleaned_query |-> cleaned,
        search_type |-> search_type_of(filters, cleaned)]

\* "Extract remaining keywords" and "keywords.extend(remaining_words)"
parse_keywords(raised, acc, q) ==
    parse_assign(raised, acc, q, acc.keywords \o remaining_keywords(q))

\* "Clean up the query" on what the extractions left
parse_clean_up(raised, acc) == parse_keywords(raised, acc, clean_up(acc.query))

\* the flags and the labels after the date extraction
parse_labels(acc) == parse_clean_up(acc.raised, label_loop(1, flags(acc)))

\* The try block of _parse_query on the raw query text at instant today:
\* [raised, filters, cleaned_query, search_type]
parse(query, today) ==
    parse_labels(month_year(date_loop(today, sender_loop(1, parse_start(query)))))

(***************************************************************************)
(* Scores: Python floats, modelled as exact rationals <<n, d>>, d > 0, in  *)
(* lowest terms.                                                           *)
(***************************************************************************)
RECURSIVE gcd(_, _)
gcd(a, b) == IF b = 0 THEN a ELSE gcd(b, a % b)

rat(n, d) == LET g == gcd(IF n < 0 THEN -n ELSE n, d) IN <<n \div g, d \div g>>
rat_lt(a, b) == a[1] * b[2] < b[1] * a[2]
rat_gt(a, b) == rat_lt(b, a)
rat_add(a, b) == rat(a[1] * b[2] + b[1] * a[2], a[2] * b[2])
rat_mul(a, b) == rat(a[1] * b[1], a[2] * b[2])
rat_max(a, b) == IF rat_lt(a, b) THEN b ELSE a

\* round(x, 3): the nearest multiple of 1/1000, ties to even
round3(x) ==
    LET t == x[1] * 1000
        q == t \div x[2]
        r2 == 2 * (t % x[2])
    IN rat(IF r2 > x[2] \/ (r2 = x[2] /\ q % 2 = 1) THEN q + 1 ELSE q, 1000)

\* sorted(xs, key=lambda x: x.relevance_score, reverse=True): a stable
\* insertion of each element after the elements whose score is not smaller
RECURSIVE insert_by_score(_, _)
insert_by_score(x, sorted) ==
    IF Len(sorted) = 0 THEN <<x>>
    ELSE IF rat_gt(x.relevance_score, sorted[1].relevance_score)
         THEN <<x>> \o sorted
         ELSE <<sorted[1]>> \o insert_by_score(x, Tail(sorted))

\* a faulty sort, which leaves the list in the order it came
left_unsorted(xs) == xs

RECURSIVE sort_by_score_desc(_)
sort_by_score_desc(xs) ==
    IF Len(xs) = 0 THEN <<>>
    ELSE insert_by_score(xs[Len(xs)], sort_by_score_desc(SubSeq(xs, 1, Len(xs) - 1)))

\* a faulty slice, which keeps the whole list
take_everything(xs, n) == xs

\* xs[:n]: a negative n counts from the end of the list
take(xs, n) ==
    IF n >= 0 THEN SubSeq(xs, 1, IF n < Len(xs) THEN n ELSE Len(xs))
    ELSE SubSeq(xs, 1, IF Len(xs) + n > 0 THEN Len(xs) + n ELSE 0)

(***************************************************************************)
(* SearchState and the stages PARSE, EMBED, LEXICAL                        *)
(*                                                                         *)
(* A SearchResult is [message_id, subject, snippet, sender_email,          *)
(* date_sent, relevance_score, search_type, labels, has_attachments];      *)
(* sender_email and date_sent are nullable, as the columns they are read   *)
(* from.  external_message_id and sender_name are carried through the      *)
(* pipeline unread and are left out.                                       *)
(***************************************************************************)
\* SearchState(query=..., account_id=..., max_results=...): the dataclass
\* defaults; start_time is the clock at construction
SearchState(query, account_id, max_results, clock) ==
    [query |-> query, account_id |-> account_id, max_results |-> max_results,
     search_type |-> "hybrid", filters |-> EmptyFilters, cleaned_query |-> <<>>,
     query_vector |-> <<>>,
     keyword_results |-> <<>>, semantic_results |-> <<>>, final_results |-> <<>>,
     total_keyword_matches |-> 0, total_semantic_matches |-> 0,
     total_final_results |-> 0, processing_time |-> 0,
     errors |-> <<>>, start_time |-> clock]

\* _parse_query: the try block assigns filters, cleaned_query and search_type
\* at its end; the except branch only appends the error
parse_outcome(state, p) ==
    IF p.raised
    THEN [state EXCEPT !.errors = Append(@, "Failed to parse query")]
    ELSE [state EXCEPT !.filters = p.filters,
                       !.cleaned_query = p.cleaned_query,
                       !.search_type = p.search_type]

parse_query(state, today) == parse_outcome(state, parse(state.query, today))

\* EmbeddingService._clean_text
clean_text(text) == IF Len(text) = 0 THEN <<>> ELSE str_join(str_split(text))

\* The embedding of a non-empty text: an opaque non-empty vector
EmbeddingVector == <<"e">>

\* EmbeddingService.generate_single_embedding: api is "ok" when
\* _generate_gemini_embedding returns and "error" when it raises
generate_single_embedding(text, api) ==
    IF Len(str_strip(clean_text(text))) = 0
    THEN [success |-> FALSE, vector |-> <<>>]
    ELSE IF api = "ok"
         THEN [success |-> TRUE, vector |-> EmbeddingVector]
         ELSE [success |-> FALSE, vector |-> <<>>]

\* a faulty guard, which does not look at the search type
calls_embedding_for_any_type(state, service) ==
    /\ Len(state.cleaned_query) > 0
    /\ service

\* whether _generate_query_vector calls the embedding service
calls_embedding(state, service) ==
    /\ state.search_type \in {"semantic", "hybrid", "filtered"}
    /\ Len(state.cleaned_query) > 0
    /\ service

\* _generate_query_vector; service is FALSE when self.embedding_service is None
generate_query_vector(state, service, api) ==
    IF calls_embedding(state, service)
    THEN LET result == generate_single_embedding(state.cleaned_query, api) IN
         IF result.success
         THEN [state EXCEPT !.query_vector = result.vector]
         ELSE [state EXCEPT !.errors = Append(@, "Failed to generate vector")]
    ELSE state

\* text LIKE pat of SQL from position i of text and j of pat: % matches any
\* run of characters, _ any one character
RECURSIVE like_at(_, _, _, _)
like_at(text, i, pat, j) ==
    IF j > Len(pat) THEN i > Len(text)
    ELSE IF pat[j] = "%"
         THEN like_at(text, i, pat, j + 1)
              \/ (i <= Len(text) /\ like_at(text, i + 1, pat, j))
         ELSE /\ i <= Len(text)
              /\ (pat[j] = "_" \/ pat[j] = text[i])
              /\ like_at(text, i + 1, pat, j + 1)

\* LOWER(column) LIKE '%term%'; NULL when the column is NULL, which the
\* WHERE clause treats as not true
sql_lower_like(column, term) ==
    /\ ~IsNone(column)
    /\ like_at(str_lower(Val(column)), 1, <<"%">> \o term \o <<"%">>, 1)

\* the WHERE clause of _keyword_search
sql_where(row, account_id, search_terms) ==
    /\ row.account_id = account_id
    /\ \E k \in 1..Len(search_terms) :
          \/ sql_lower_like(row.subject, str_lower(search_terms[k]))
          \/ sql_lower_like(row.snippet, str_lower(search_terms[k]))

\* row a comes before row b under ORDER BY date_sent DESC (NULLs first);
\* rows of equal date are taken in id order
sql_before(a, b) ==
    IF IsNone(a.date_sent) /\ IsNone(b.date_sent) THEN a.id < b.id
    ELSE IF IsNone(a.date_sent) THEN TRUE
    ELSE IF IsNone(b.date_sent) THEN FALSE
    ELSE \/ dt_gt(Val(a.date_sent), Val(b.date_sent))
         \/ (Val(a.date_sent) = Val(b.date_sent) /\ a.id < b.id)

RECURSIVE sql_order(_)
sql_order(rows) ==
    IF rows = {} THEN <<>>
    ELSE LET first == CHOOSE a \in rows : \A b \in rows \ {a} : sql_before(a, b) IN
         <<first>> \o sql_order(rows \ {first})

\* cur.execute(base_query, search_params); cur.fetchall()
sql_select(rows, account_id, search_terms, limit) ==
    take(sql_order({r \in rows : sql_where(r, account_id, search_terms)}), limit)

\* term_lower in (text or "").lower()
term_in(term, column) ==
    str_contains(IF IsNone(column) THEN <<>> ELSE str_lower(Val(column)), str_lower(term))

RECURSIVE keyword_score_sum(_, _, _)
keyword_score_sum(subject, snippet, terms) ==
    IF Len(terms) = 0 THEN 0
    ELSE (IF term_in(terms[1], subject) THEN 2 ELSE 0)
         + (IF term_in(terms[1], snippet) THEN 1 ELSE 0)
         + keyword_score_sum(subject, snippet, Tail(terms))

\* _calculate_keyword_score
\* a faulty score, which is not divided by the number of terms
calculate_keyword_score_unnormalized(subject, snippet, search_terms) ==
    rat(keyword_score_sum(subject, snippet, search_terms), 1)

calculate_keyword_score(subject, snippet, search_terms) ==
    IF Len(search_terms) = 0 THEN rat(0, 1)
    ELSE rat(keyword_score_sum(subject, snippet, search_terms), Len(search_terms))

\* SearchResult(...) of one fetched row
keyword_result(row, search_terms) ==
    [message_id |-> row.id,
     subject |-> IF IsNone(row.subject) THEN <<>> ELSE Val(row.subject),
     snippet |-> IF IsNone(row.snippet) THEN <<>> ELSE Val(row.snippet),
     sender_email |-> row.sender_email,
     date_sent |-> row.date_sent,
     relevance_score |-> calculate_keyword_score(row.subject, row.snippet, search_terms),
     search_type |-> "keyword",
     labels |-> IF IsNone(row.labels) THEN <<>> ELSE Val(row.labels),
     has_attachments |-> ~IsNone(row.has_attachments) /\ Val(row.has_attachments)]

\* a faulty guard, which queries email_messages whatever the parse left
calls_store_always(state) == TRUE

\* whether _keyword_search queries the message store
calls_store(state) == Len(state.cleaned_query) > 0 \/ Len(state.filters.keywords) > 0

\* _keyword_search; db_up is FALSE when the connection or the query raises,
\* rows is the content of email_messages
keyword_search(state, db_up, rows) ==
    IF calls_store(state)
    THEN LET search_terms == IF Len(state.filters.keywords) > 0
                             THEN state.filters.keywords
                             ELSE <<state.cleaned_query>>
         IN IF ~db_up \/ state.max_results < 0
            THEN [state EXCEPT !.errors = Append(@, "Keyword search failed")]
            ELSE LET fetched == sql_select(rows, state.account_id, search_terms,
                                           state.max_results)
                     keyword_results ==
                         [i \in 1..Len(fetched) |-> keyword_result(fetched[i], search_terms)]
                 IN [state EXCEPT
                       !.keyword_results = sort_by_score_desc(keyword_results),
                       !.total_keyword_matches = Len(keyword_results)]
    ELSE [state EXCEPT !.keyword_results = <<>>, !.total_keyword_matches = 0]

(***************************************************************************)
(* The vector store (QdrantService) and the stage SEMANTIC                 *)
(***************************************************************************)
\* score_threshold=0.3 of the call in _semantic_search
ScoreThreshold == rat(3, 10)

\* QdrantService._get_email_data_by_vector_id: the join of message_embeddings
\* (embeddings: records [vector_id, message_id]) with email_messages (rows);
\* None when the lookup raises (db_up FALSE) or finds no row
get_email_data_by_vector_id(vector_id, db_up, embeddings, rows) ==
    LET found == {r \in rows : \E me \in embeddings :
                      me.vector_id = vector_id /\ me.message_id = r.id}
    IN IF ~db_up \/ found = {} THEN None
       ELSE LET row == CHOOSE r \in found : TRUE IN
            Some([message_id |-> row.id,
                  subject |-> IF IsNone(row.subject) THEN <<>> ELSE Val(row.subject),
                  snippet |-> IF IsNone(row.snippet) THEN <<>> ELSE Val(row.snippet),
                  sender_email |-> row.sender_email,
                  date_sent |-> IF IsNone(row.date_sent) THEN None
                                ELSE Some(isoformat(Val(row.date_sent)))])

\* "for hit in search_results": a VectorSearchResult per hit whose email data
\* is found
RECURSIVE vector_results_of(_, _, _, _)
vector_results_of(hits, db_up, embeddings, rows) ==
    IF Len(hits) = 0 THEN <<>>
    ELSE LET email_data == get_email_data_by_vector_id(hits[1].id, db_up, embeddings, rows)
             rest == vector_results_of(Tail(hits), db_up, embeddings, rows)
         IN IF IsNone(email_data) THEN rest
            ELSE <<[message_id |-> Val(email_data).message_id,
                    score |-> hits[1].score,
                    subject |-> Val(email_data).subject,
                    snippet |-> Val(email_data).snippet,
                    sender_email |-> Val(email_data).sender_email,
                    date_sent |-> Val(email_data).date_sent]>> \o rest

\* QdrantService.search_similar_vectors: client is the outcome of
\* self.client.search, [raised, hits]; every exception is caught and answered
\* with the empty list, so the call itself never raises
search_similar_vectors(client, db_up, embeddings, rows) ==
    IF client.raised
    THEN [raised |-> FALSE, results |-> <<>>]
    ELSE [raised |-> FALSE,
          results |-> vector_results_of(client.hits, db_up, embeddings, rows)]

\* SearchResult(...) of one VectorSearchResult
semantic_result(vr, now) ==
    [message_id |-> vr.message_id,
     subject |-> vr.subject,
     snippet |-> vr.snippet,
     sender_email |-> vr.sender_email,
     date_sent |-> IF IsNone(vr.date_sent) THEN Some(now)
                   ELSE Some(fromisoformat(Val(vr.date_sent))),
     relevance_score |-> vr.score,
     search_type |-> "semantic",
     labels |-> <<>>,
     has_attachments |-> FALSE]

\* whether _semantic_search calls the vector store
calls_vector_store(state, service) == Len(state.query_vector) > 0 /\ service

\* _semantic_search; service is FALSE when self.qdrant_service is None, call
\* is the outcome of self.qdrant_service.search_similar_vectors
semantic_search(state, service, call, now) ==
    IF calls_vector_store(state, service)
    THEN IF call.raised
         THEN [state EXCEPT !.errors = Append(@, "Semantic search failed")]
         ELSE LET semantic_results ==
                      [i \in 1..Len(call.results) |-> semantic_result(call.results[i], now)]
              IN [state EXCEPT !.semantic_results = semantic_results,
                               !.total_semantic_matches = Len(semantic_results)]
    ELSE state

(***************************************************************************)
(* The stage FUSE.  combined_results is the dict of the code, as the       *)
(* sequence of its entries in insertion order; an entry is [key, ref, val] *)
(* where ref names the SearchResult object the dict holds (<<"k", i>> is   *)
(* keyword_results[i], <<"s", j>> is semantic_results[j]) and val is that  *)
(* object's current value.  The dict holds the objects of the two lists,   *)
(* not copies: what the loops assign shows in the lists too.               *)
(***************************************************************************)
SemanticWeight == rat(6, 10)
KeywordWeight == rat(4, 10)

\* (semantic_score * 0.6) + (keyword_score * 0.4)
combined_score(semantic_score, keyword_score) ==
    rat_add(rat_mul(semantic_score, SemanticWeight), rat_mul(keyword_score, KeywordWeight))

\* a faulty membership test, which finds no key in the dict
has_key_never(combined, key) == FALSE

has_key(combined, key) == \E e \in 1..Len(combined) : combined[e].key = key
index_of(combined, key) == CHOOSE e \in 1..Len(combined) : combined[e].key = key

\* "for result in state.keyword_results"
RECURSIVE add_keyword_results(_, _, _)
add_keyword_results(results, i, combined) ==
    IF i > Len(results) THEN combined
    ELSE LET result == results[i]
             key == result.message_id
         IN add_keyword_results(results, i + 1,
              IF ~has_key(combined, key)
              THEN Append(combined,
                          [key |-> key, ref |-> <<"k", i>>,
                           val |-> [result EXCEPT !.search_type = "keyword"]])
              ELSE [combined EXCEPT ![index_of(combined, key)].val =
                       [@ EXCEPT !.relevance_score =
                                     rat_max(@, result.relevance_score),
                                 !.search_type = "hybrid"]])

\* "for result in state.semantic_results"
RECURSIVE add_semantic_results(_, _, _)
add_semantic_results(results, j, combined) ==
    IF j > Len(results) THEN combined
    ELSE LET result == results[j]
             key == result.message_id
         IN add_semantic_results(results, j + 1,
              IF ~has_key(combined, key)
              THEN Append(combined,
                          [key |-> key, ref |-> <<"s", j>>,
                           val |-> [result EXCEPT !.search_type = "semantic"]])
              ELSE [combined EXCEPT ![index_of(combined, key)].val =
                       [@ EXCEPT !.relevance_score =
                                     combined_score(result.relevance_score, @),
                                 !.search_type = "hybrid"]])

\* the dict after both loops
combine(keyword_results, semantic_results) ==
    add_semantic_results(semantic_results, 1,
                         add_keyword_results(keyword_results, 1, <<>>))

\* a result list after the loops: the objects the dict holds carry its values
aliased(results, tag, combined) ==
    [i \in 1..Len(results) |->
        IF \E e \in 1..Len(combined) : combined[e].ref = <<tag, i>>
        THEN combined[CHOOSE e \in 1..Len(combined) : combined[e].ref = <<tag, i>>].val
        ELSE results[i]]

\* _fuse_results
fuse_results(state) ==
    LET combined == combine(state.keyword_results, state.semantic_results)
        fused_results == sort_by_score_desc([e \in 1..Len(combined) |-> combined[e].val])
    IN [state EXCEPT
          !.keyword_results = aliased(state.keyword_results, "k", combined),
          !.semantic_results = aliased(state.semantic_results, "s", combined),
          !.final_results = take(fused_results, state.max_results)]

(***************************************************************************)
(* The stages FILTER and FINALIZE, and the report of search_emails         *)
(***************************************************************************)
\* One pass of the loop body of _apply_filters for result: "keep" when it is
\* appended, "drop" when a continue is taken, "raise" when a test raises
\* (None.lower(), None < datetime)
filter_verdict(result, filters) ==
    IF Len(filters.sender_emails) > 0 /\ IsNone(result.sender_email) THEN "raise"
    ELSE IF /\ Len(filters.sender_emails) > 0
            /\ ~\E k \in 1..Len(filters.sender_emails) :
                   str_contains(str_lower(Val(result.sender_email)), filters.sender_emails[k])
         THEN "drop"
    ELSE IF ~IsNone(filters.date_from) /\ IsNone(result.date_sent) THEN "raise"
    ELSE IF ~IsNone(filters.date_from)
            /\ dt_lt(Val(result.date_sent), Val(filters.date_from)) THEN "drop"
    ELSE IF ~IsNone(filters.date_to) /\ IsNone(result.date_sent) THEN "raise"
    ELSE IF ~IsNone(filters.date_to)
            /\ dt_gt(Val(result.date_sent), Val(filters.date_to)) THEN "drop"
    ELSE IF /\ ~IsNone(filters.is_important)
            /\ Val(filters.is_important)
                 # (\E k \in 1..Len(result.labels) : result.labels[k] = "IMPORTANT")
         THEN "drop"
    ELSE IF /\ ~IsNone(filters.has_attachments)
            /\ Val(filters.has_attachments) # result.has_attachments
         THEN "drop"
    ELSE IF /\ Len(filters.labels) > 0
            /\ ~\E k \in 1..Len(filters.labels) :
                   \E l \in 1..Len(result.labels) : result.labels[l] = filters.labels[k]
         THEN "drop"
    ELSE "keep"

\* _apply_filters: a test that raises ends the loop before final_results is
\* assigned
apply_filters(state) ==
    IF \E i \in 1..Len(state.final_results) :
          filter_verdict(state.final_results[i], state.filters) = "raise"
    THEN [state EXCEPT !.errors = Append(@, "Filter application failed")]
    ELSE [state EXCEPT !.final_results =
             SelectSeq(@, LAMBDA r : filter_verdict(r, state.filters) = "keep")]

\* b - a in seconds
dt_seconds_between(a, b) == (b[1] - a[1]) * 86400 + (b[2] - a[2])

\* _finalize_results; now is time.time()
finalize_results(state, now) ==
    [state EXCEPT !.processing_time = dt_seconds_between(state.start_time, now),
                  !.total_final_results = Len(state.final_results)]

\* search_emails after the workflow has run: result.date_sent.isoformat()
\* raises AttributeError for a result without a date, outside any try
report_raises(final_state) ==
    \E i \in 1..Len(final_state.final_results) :
        IsNone(final_state.final_results[i].date_sent)

\* a faulty success flag, which tolerates one error
success_tolerating_one_error(errors) == Len(errors) <= 1

\* len(final_state['errors']) == 0
success_of(errors) == Len(errors) = 0

\* the dict search_emails returns
report_of(final_state) ==
    LET results ==
          [i \in 1..Len(final_state.final_results) |->
             LET result == final_state.final_results[i] IN
             [message_id |-> result.message_id,
              subject |-> result.subject,
              snippet |-> result.snippet,
              sender_email |-> result.sender_email,
              date_sent |-> isoformat(Val(result.date_sent)),
              relevance_score |-> round3(result.relevance_score),
              search_type |-> result.search_type,
              has_attachments |-> result.has_attachments]]
    IN [success |-> success_of(final_state.errors),
        query |-> final_state.query,
        search_type |-> final_state.search_type,
        total_results |-> Len(results),
        results |-> results,
        processing_time |-> round3(rat(final_state.processing_time, 1)),
        statistics |-> [keyword_matches |-> final_state.total_keyword_matches,
                        semantic_matches |-> final_state.total_semantic_matches,
                        final_results |-> final_state.total_final_results],
        errors |-> final_state.errors]

(***************************************************************************)
(* The bounded inputs: queries, accounts, caps, the rows of email_messages *)
(* and message_embeddings, the similarity of each stored vector to the     *)
(* query vector.                                                           *)
(***************************************************************************)
Queries == {
    \* "project update"
    <<"p","r","o","j","e","c","t"," ","u","p","d","a","t","e">>,
    \* "meetings last week"
    <<"m","e","e","t","i","n","g","s"," ","l","a","s","t"," ","w","e","e","k">>,
    \* "emails from sender0@example.com"
    <<"e","m","a","i","l","s"," ","f","r","o","m"," ","s","e","n","d","e","r","0","@","e","x","a","m","p","l","e",".","c","o","m">>,
    \* "important invoices from december 2024"
    <<"i","m","p","o","r","t","a","n","t"," ","i","n","v","o","i","c","e","s"," ","f","r","o","m"," ","d","e","c","e","m","b","e","r"," ","2","0","2","4">>,
    \* "attachments"
    <<"a","t","t","a","c","h","m","e","n","t","s">>,
    \* "invoices december 0000"
    <<"i","n","v","o","i","c","e","s"," ","d","e","c","e","m","b","e","r"," ","0","0","0","0">>,
    \* "Invoices December 2024"
    <<"I","n","v","o","i","c","e","s"," ","D","e","c","e","m","b","e","r"," ","2","0","2","4">>,
    \* "inbox"
    <<"i","n","b","o","x">>,
    \* "important invoices december 2024"
    <<"i","m","p","o","r","t","a","n","t"," ","i","n","v","o","i","c","e","s"," ","d","e","c","e","m","b","e","r"," ","2","0","2","4">> }

AccountIds == {1, 2}

\* the largest max_results a call passes
MaxResults == 5
CapValues == {1, 2, MaxResults}

\* the seconds that may pass between the construction of the state and the
\* vector search
MaxElapsed == 1

\* the most points the vector collection holds
MaxPoints == 3

\* 2025-01-05 10:00:00 UTC
Nows == { <<739256, 36000>> }

Row(id, account_id, subject, snippet, sender_email, date_sent, labels, has_attachments) ==
    [id |-> id, account_id |-> account_id, subject |-> subject, snippet |-> snippet,
     sender_email |-> sender_email, date_sent |-> date_sent, labels |-> labels,
     has_attachments |-> has_attachments]

\* rows with every column set
CleanRows == {
    \* 2024-12-30 09:00:00
    Row(1, 1, Some(<<"P","r","o","j","e","c","t"," ","u","p","d","a","t","e">>), Some(<<"m","e","e","t","i","n","g","s">>),
        Some(<<"s","e","n","d","e","r","0","@","e","x","a","m","p","l","e",".","c","o","m">>), Some(<<739250, 32400>>),
        Some(<<"INBOX", "IMPORTANT">>), Some(TRUE)),
    \* 2025-01-01 00:00:00
    Row(2, 1, Some(<<"i","n","v","o","i","c","e","s">>), Some(<<"p","r","o","j","e","c","t"," ","e","m","a","i","l","s">>),
        Some(<<"B","o","b","@","E","x","a","m","p","l","e",".","c","o","m">>), Some(<<739252, 0>>),
        Some(<<"INBOX">>), Some(FALSE)),
    \* 2025-01-03 00:00:00
    Row(3, 1, Some(<<"t","e","a","m"," ","m","e","e","t","i","n","g","s">>), Some(<<"p","r","o","j","e","c","t">>),
        Some(<<"c","a","r","o","l","@","e","x","a","m","p","l","e",".","c","o","m">>), Some(<<739254, 0>>),
        Some(<<>>), Some(FALSE)),
    \* 2024-12-20 00:00:00, another account's message
    Row(4, 2, Some(<<"p","r","o","j","e","c","t"," ","m","e","e","t","i","n","g","s">>), Some(<<"e","m","a","i","l","s"," ","u","p","d","a","t","e">>),
        Some(<<"e","v","e","@","o","t","h","e","r",".","o","r","g">>), Some(<<739240, 0>>),
        Some(<<"SENT">>), Some(FALSE)) }

\* a row without sender: 2024-12-10 00:00:00
RowNoSender ==
    Row(5, 1, Some(<<"m","e","e","t","i","n","g","s"," ","e","m","a","i","l","s">>), None, None, Some(<<739230, 0>>),
        None, None)

\* a row without date
RowNoDate ==
    Row(6, 1, Some(<<"e","m","a","i","l","s"," ","i","n","v","o","i","c","e","s">>), Some(<<"u","p","d","a","t","e">>),
        Some(<<"s","e","n","d","e","r","0","@","e","x","a","m","p","l","e",".","c","o","m">>), None, Some(<<"INBOX">>), Some(TRUE))

Stores == { CleanRows, CleanRows \cup {RowNoSender}, CleanRows \cup {RowNoDate} }

\* message_embeddings: process_email_embeddings stores one vector per embedded
\* field (subject, snippet, combined) of a message, so message 1 owns two here
Embeddings == {
    [vector_id |-> 1, message_id |-> 1], [vector_id |-> 2, message_id |-> 1],
    [vector_id |-> 3, message_id |-> 3], [vector_id |-> 4, message_id |-> 4],
    [vector_id |-> 5, message_id |-> 2], [vector_id |-> 6, message_id |-> 6] }

VectorIds == {e.vector_id : e \in Embeddings}

\* the cosine similarity of each stored vector to the query vector
Similarity(vector_id) ==
    CASE vector_id = 1 -> rat(9, 10)
      [] vector_id = 2 -> rat(1, 2)
      [] vector_id = 3 -> rat(7, 10)
      [] vector_id = 4 -> rat(4, 5)
      [] vector_id = 5 -> rat(1, 5)
      [] vector_id = 6 -> rat(2, 5)

\* self.client.search(query_vector, limit, score_threshold) on a collection
\* holding the vectors of points: the points scoring at least the threshold,
\* best first, at most limit of them
RECURSIVE qdrant_rank(_)
qdrant_rank(points) ==
    IF points = {} THEN <<>>
    ELSE LET best == CHOOSE a \in points : \A b \in points \ {a} :
                         rat_gt(Similarity(a), Similarity(b))
         IN <<[id |-> best, score |-> Similarity(best)]>> \o qdrant_rank(points \ {best})

qdrant_search(points, limit, score_threshold) ==
    take(qdrant_rank({v \in points : ~rat_lt(Similarity(v), score_threshold)}), limit)

(***************************************************************************)
(* The state machine: one call of search_emails.  pc is the node of the    *)
(* LangGraph workflow that runs next; after END, search_emails builds its  *)
(* report ("returned") or lets an exception escape ("raised").  A second   *)
(* call on the same SmartSearchWorkflow instance, when there is one, is    *)
(* the record other, with its own st, pc, env and report.                  *)
(***************************************************************************)
VARIABLES
    st,         \* the SearchState threaded through the nodes
    pc,         \* the node to run next, then "END", then "returned" or "raised"
    store,      \* the rows of email_messages
    services,   \* FALSE when __init__ set embedding_service and qdrant_service to None
    clock,      \* the current instant
    env,        \* what each collaborator did in this call, and how many times
                \* the call opened the message database
    report,     \* the dict search_emails returned, None before it returns
    other       \* the second call on the same instance

vars == <<st, pc, store, services, clock, env, report, other>>

\* a faulty graph, in which FILTER has no outgoing edge
edge_without_filter_exit(node) ==
    CASE node = "parse_query" -> "generate_vector"
      [] node = "generate_vector" -> "keyword_search"
      [] node = "keyword_search" -> "semantic_search"
      [] node = "semantic_search" -> "fuse_results"
      [] node = "fuse_results" -> "apply_filters"
      [] node = "apply_filters" -> "halted"
      [] node = "finalize_results" -> "END"

\* _create_workflow: the edges of the graph
edge(node) ==
    CASE node = "parse_query" -> "generate_vector"
      [] node = "generate_vector" -> "keyword_search"
      [] node = "keyword_search" -> "semantic_search"
      [] node = "semantic_search" -> "fuse_results"
      [] node = "fuse_results" -> "apply_filters"
      [] node = "apply_filters" -> "finalize_results"
      [] node = "finalize_results" -> "END"

\* what the vector store may do when it is called: self.client.search raises;
\* or it answers from a collection of points, and the lookups of the hits'
\* email data succeed or raise
VectorStoreOutcomes ==
    {[kind |-> "raised", points |-> {}]}
    \cup {[kind |-> "lookup failed", points |-> VectorIds]}
    \cup {[kind |-> "answered", points |-> P] :
             P \in {Q \in SUBSET VectorIds : Cardinality(Q) <= MaxPoints}}

\* psycopg2.connect of _keyword_search: one connection when the stage queries
db_connections(db) == IF db = "not called" THEN 0 ELSE 1

\* psycopg2.connect of _get_email_data_by_vector_id: one connection for each
\* hit self.client.search returned
lookup_connections(client) == IF client.raised THEN 0 ELSE Len(client.hits)

\* nothing has been asked of a collaborator, and the clock has not been read
\* by _parse_query (today), _semantic_search (semantic_now) or
\* _finalize_results (finalize_now)
env_at_start ==
    [embedding |-> "not called", store |-> "not called",
     vector_store |-> [kind |-> "not called", points |-> {}],
     store_calls |-> 0,
     today |-> None, semantic_now |-> None, finalize_now |-> None]

\* what QdrantService.search_similar_vectors returns for the outcome out
vector_store_response(out, limit, rows) ==
    search_similar_vectors([raised |-> out.kind = "raised",
                            hits |-> qdrant_search(out.points, limit, ScoreThreshold)],
                           out.kind # "lookup failed", Embeddings, rows)

\* the connections to the message database search_similar_vectors opens
vector_store_lookups(out, limit) ==
    lookup_connections([raised |-> out.kind = "raised",
                        hits |-> qdrant_search(out.points, limit, ScoreThreshold)])

Init ==
    /\ clock \in Nows
    /\ \E query \in Queries, account_id \in AccountIds, max_results \in CapValues :
          st = SearchState(query, account_id, max_results, clock)
    /\ pc = "parse_query"
    /\ store \in Stores
    /\ services \in BOOLEAN
    /\ env = env_at_start
    /\ report = None
    /\ other = [pc |-> "absent"]

ParseQuery ==
    /\ pc = "parse_query"
    /\ st' = parse_query(st, clock)
    /\ env' = [env EXCEPT !.today = Some(clock)]
    /\ pc' = edge(pc)
    /\ UNCHANGED <<store, services, clock, report, other>>

GenerateVector ==
    /\ pc = "generate_vector"
    /\ \E api \in IF calls_embedding(st, services) THEN {"ok", "error"} ELSE {"not called"} :
          /\ st' = generate_query_vector(st, services, api)
          /\ env' = [env EXCEPT !.embedding = api]
    /\ pc' = edge(pc)
    /\ UNCHANGED <<store, services, clock, report, other>>

KeywordSearch ==
    /\ pc = "keyword_search"
    /\ \E db \in IF calls_store(st) THEN {"up", "down"} ELSE {"not called"} :
          /\ st' = keyword_search(st, db = "up", store)
          /\ env' = [env EXCEPT !.store = db,
                                !.store_calls = @ + db_connections(db)]
    /\ pc' = edge(pc)
    /\ UNCHANGED <<store, services, clock, report, other>>

SemanticSearch ==
    /\ pc = "semantic_search"
    /\ IF calls_vector_store(st, services)
       THEN \E out \in VectorStoreOutcomes, elapsed \in 0..MaxElapsed :
               LET client == [raised |-> out.kind = "raised",
                              hits |-> qdrant_search(out.points, st.max_results,
                                                     ScoreThreshold)]
                   call == search_similar_vectors(client, out.kind # "lookup failed",
                                                  Embeddings, store)
               IN /\ clock' = <<clock[1], clock[2] + elapsed>>
                  /\ st' = semantic_search(st, services, call, clock')
                  /\ env' = [env EXCEPT !.vector_store = out,
                                        !.store_calls = @ + lookup_connections(client),
                                        !.semantic_now = Some(clock')]
       ELSE /\ st' = semantic_search(st, services, [raised |-> FALSE, results |-> <<>>], clock)
            /\ UNCHANGED <<clock, env>>
    /\ pc' = edge(pc)
    /\ UNCHANGED <<store, services, report, other>>

FuseResults ==
    /\ pc = "fuse_results"
    /\ st' = fuse_results(st)
    /\ pc' = edge(pc)
    /\ UNCHANGED <<store, services, clock, env, report, other>>

ApplyFilters ==
    /\ pc = "apply_filters"
    /\ st' = apply_filters(st)
    /\ pc' = edge(pc)
    /\ UNCHANGED <<store, services, clock, env, report, other>>

FinalizeResults ==
    /\ pc = "finalize_results"
    /\ st' = finalize_results(st, clock)
    /\ env' = [env EXCEPT !.finalize_now = Some(clock)]
    /\ pc' = edge(pc)
    /\ UNCHANGED <<store, services, clock, report, other>>

\* search_emails after self.workflow.invoke
ReturnReport ==
    /\ pc = "END"
    /\ IF report_raises(st)
       THEN pc' = "raised" /\ report' = None
       ELSE pc' = "returned" /\ report' = Some(report_of(st))
    /\ UNCHANGED <<st, store, services, clock, env, other>>

Next ==
    \/ ParseQuery
    \/ GenerateVector
    \/ KeywordSearch
    \/ SemanticSearch
    \/ FuseResults
    \/ ApplyFilters
    \/ FinalizeResults
    \/ ReturnReport

Spec == Init /\ [][Next]_vars

\* What the runtime does with the position alone: invoke runs the node pc
\* names and follows its edge, and search_emails then builds its report or
\* raises.  Every step of Next is such a step, and one is possible exactly
\* when a step of Next is.
Advance ==
    \/ pc \in {"parse_query", "generate_vector", "keyword_search", "semantic_search",
               "fuse_results", "apply_filters", "finalize_results"} /\ pc' = edge(pc)
    \/ pc = "END" /\ pc' \in {"returned", "raised"}

\* invoke does not stop between two nodes, nor search_emails after invoke
FairSpec == Spec /\ WF_pc(Advance)

(***************************************************************************)
(* Two calls of search_emails on one SmartSearchWorkflow instance, their   *)
(* stages interleaved.  The calls share what the instance holds (the       *)
(* compiled graph, the two services, db_params), the database and the      *)
(* clock; each builds its own SearchState.                                 *)
(***************************************************************************)
\* what the vector store may do for the second call
OtherVectorStoreOutcomes ==
    {[kind |-> "raised", points |-> {}], [kind |-> "answered", points |-> {1, 3}]}

first_call == <<st, pc, env, report>>

\* a faulty start of the second call: the SearchState it runs on is the one
\* the first call is working on
OtherSearchEmailsOnSharedState ==
    /\ other.pc = "not started"
    /\ other' = [other EXCEPT !.st = st, !.pc = "parse_query"]
    /\ UNCHANGED <<first_call, store, services, clock>>

\* search_emails: initial_state = SearchState(query, account_id, max_results)
OtherSearchEmails ==
    /\ other.pc = "not started"
    /\ other' = [other EXCEPT
                   !.st = SearchState(@.query, @.account_id, @.max_results, clock),
                   !.pc = "parse_query"]
    /\ UNCHANGED <<first_call, store, services, clock>>

OtherParseQuery ==
    /\ other.pc = "parse_query"
    /\ other' = [other EXCEPT !.st = parse_query(@, clock),
                              !.env.today = Some(clock),
                              !.pc = edge(@)]
    /\ UNCHANGED <<first_call, store, services, clock>>

OtherGenerateVector ==
    /\ other.pc = "generate_vector"
    /\ \E api \in IF calls_embedding(other.st, services)
                  THEN {"ok", "error"} ELSE {"not called"} :
          other' = [other EXCEPT !.st = generate_query_vector(@, services, api),
                                 !.env.embedding = api,
                                 !.pc = edge(@)]
    /\ UNCHANGED <<first_call, store, services, clock>>

OtherKeywordSearch ==
    /\ other.pc = "keyword_search"
    /\ \E db \in IF calls_store(other.st) THEN {"up", "down"} ELSE {"not called"} :
          other' = [other EXCEPT !.st = keyword_search(@, db = "up", store),
                                 !.env.store = db,
                                 !.env.store_calls = @ + db_connections(db),
                                 !.pc = edge(@)]
    /\ UNCHANGED <<first_call, store, services, clock>>

OtherSemanticSearch ==
    /\ other.pc = "semantic_search"
    /\ IF calls_vector_store(other.st, services)
       THEN \E out \in OtherVectorStoreOutcomes, elapsed \in 0..MaxElapsed :
               /\ clock' = <<clock[1], clock[2] + elapsed>>
               /\ other' = [other EXCEPT
                              !.st = semantic_search(
                                         @, services,
                                         vector_store_response(out, @.max_results, store),
                                         clock'),
                              !.env.vector_store = out,
                              !.env.store_calls =
                                  @ + vector_store_lookups(out, other.st.max_results),
                              !.env.semantic_now = Some(clock'),
                              !.pc = edge(@)]
       ELSE /\ other' = [other EXCEPT
                           !.st = semantic_search(@, services,
                                                  [raised |-> FALSE, results |-> <<>>],
                                                  clock),
                           !.pc = edge(@)]
            /\ UNCHANGED clock
    /\ UNCHANGED <<first_call, store, services>>

OtherFuseResults ==
    /\ other.pc = "fuse_results"
    /\ other' = [other EXCEPT !.st = fuse_results(@), !.pc = edge(@)]
    /\ UNCHANGED <<first_call, store, services, clock>>

OtherApplyFilters ==
    /\ other.pc = "apply_filters"
    /\ other' = [other EXCEPT !.st = apply_filters(@), !.pc = edge(@)]
    /\ UNCHANGED <<first_call, store, services, clock>>

OtherFinalizeResults ==
    /\ other.pc = "finalize_results"
    /\ other' = [other EXCEPT !.st = finalize_results(@, clock),
                              !.env.finalize_now = Some(clock),
                              !.pc = edge(@)]
    /\ UNCHANGED <<first_call, store, services, clock>>

OtherReturnReport ==
    /\ other.pc = "END"
    /\ other' = IF report_raises(other.st)
                THEN [other EXCEPT !.pc = "raised"]
                ELSE [other EXCEPT !.pc = "returned",
                                   !.report = Some(report_of(other.st))]
    /\ UNCHANGED <<first_call, store, services, clock>>

s_project_update == <<"p","r","o","j","e","c","t"," ","u","p","d","a","t","e">>
s_meetings_last_week ==
    <<"m","e","e","t","i","n","g","s"," ","l","a","s","t"," ","w","e","e","k">>

\* the queries of the two calls
FirstQueries == {s_attachments}
OtherQueries == {s_project_update, s_meetings_last_week}

ConcurrentInit ==
    /\ clock \in Nows
    /\ \E query \in FirstQueries : st = SearchState(query, 1, MaxResults, clock)
    /\ pc = "parse_query"
    /\ store \in Stores
    /\ services = TRUE
    /\ env = env_at_start
    /\ report = None
    /\ \E query \in OtherQueries, account_id \in AccountIds :
          other = [query |-> query, account_id |-> account_id, max_results |-> 1,
                   st |-> SearchState(query, account_id, 1, clock),
                   pc |-> "not started", env |-> env_at_start, report |-> None]

ConcurrentNext ==
    \/ ParseQuery
    \/ GenerateVector
    \/ KeywordSearch
    \/ SemanticSearch
    \/ FuseResults
    \/ ApplyFilters
    \/ FinalizeResults
    \/ ReturnReport
    \/ OtherSearchEmails
    \/ OtherParseQuery
    \/ OtherGenerateVector
    \/ OtherKeywordSearch
    \/ OtherSemanticSearch
    \/ OtherFuseResults
    \/ OtherApplyFilters
    \/ OtherFinalizeResults
    \/ OtherReturnReport

ConcurrentSpec == ConcurrentInit /\ [][ConcurrentNext]_vars

(***************************************************************************)
(* _calculate_keyword_score on its own: st holds the arguments of one      *)
(* call, report the score it returns.                                      *)
(***************************************************************************)
\* the longest list of search terms
MaxTerms == 2

\* row[2] and row[3] of a fetched row: NULL, empty or a text
ScoreSubjects ==
    {None, Some(<<>>), Some(<<"P","r","o","j","e","c","t"," ","u","p","d","a","t","e">>),
     Some(<<"i","n","v","o","i","c","e","s">>)}
ScoreSnippets ==
    {None, Some(<<"p","r","o","j","e","c","t"," ","u","p","d","a","t","e">>),
     Some(<<"m","e","e","t","i","n","g","s">>)}
ScoreTerms ==
    {<<"p","r","o","j","e","c","t">>, <<"U","P","D","A","T","E">>,
     <<"m","e","e","t","i","n","g","s">>}
ScoreTermLists == UNION {[1..n -> ScoreTerms] : n \in 0..MaxTerms}

ScoreInit ==
    /\ \E subject \in ScoreSubjects, snippet \in ScoreSnippets,
          search_terms \in ScoreTermLists :
          st = [subject |-> subject, snippet |-> snippet, search_terms |-> search_terms]
    /\ pc = "calculate_keyword_score"
    /\ store = {}
    /\ services = FALSE
    /\ clock \in Nows
    /\ env = env_at_start
    /\ report = None
    /\ other = [pc |-> "absent"]

CalculateKeywordScore ==
    /\ pc = "calculate_keyword_score"
    /\ report' = Some(calculate_keyword_score(st.subject, st.snippet, st.search_terms))
    /\ pc' = "scored"
    /\ UNCHANGED <<st, store, services, clock, env, other>>

ScoreSpec == ScoreInit /\ [][CalculateKeywordScore]_vars

(***************************************************************************)
(* Properties of search_emails and of its stages                           *)
(***************************************************************************)
ids(results) == [i \in 1..Len(results) |-> results[i].message_id]
id_set(results) == {results[i].message_id : i \in 1..Len(results)}
entries_of(results, id) == {i \in 1..Len(results) : results[i].message_id = id}

\* the predicates of the filter step, each on its own
sender_ok(r, f) ==
    \/ Len(f.sender_emails) = 0
    \/ /\ ~IsNone(r.sender_email)
       /\ \E k \in 1..Len(f.sender_emails) :
             str_contains(str_lower(Val(r.sender_email)), f.sender_emails[k])
date_from_ok(r, f) ==
    \/ IsNone(f.date_from)
    \/ (~IsNone(r.date_sent) /\ ~dt_lt(Val(r.date_sent), Val(f.date_from)))
date_to_ok(r, f) ==
    \/ IsNone(f.date_to)
    \/ (~IsNone(r.date_sent) /\ ~dt_gt(Val(r.date_sent), Val(f.date_to)))
importance_ok(r, f) ==
    \/ IsNone(f.is_important)
    \/ Val(f.is_important) = ("IMPORTANT" \in {r.labels[l] : l \in 1..Len(r.labels)})
attachments_ok(r, f) ==
    IsNone(f.has_attachments) \/ Val(f.has_attachments) = r.has_attachments
labels_ok(r, f) ==
    \/ Len(f.labels) = 0
    \/ {f.labels[k] : k \in 1..Len(f.labels)} \cap {r.labels[l] : l \in 1..Len(r.labels)} # {}
passes_all(r, f) ==
    /\ sender_ok(r, f) /\ date_from_ok(r, f) /\ date_to_ok(r, f)
    /\ importance_ok(r, f) /\ attachments_ok(r, f) /\ labels_ok(r, f)

filter_has_run == pc \in {"finalize_results", "END", "returned", "raised"}

C2_VectorStoreRaiseIsReported ==
    (env.vector_store.kind = "raised" /\ pc \in {"returned", "raised"}) =>
        /\ pc = "returned"
        /\ ids(Val(report).results)
             = ids(SelectSeq(st.keyword_results, LAMBDA r : passes_all(r, st.filters)))
        /\ ~Val(report).success
        /\ Len(Val(report).errors) > 0

\* C3: with the vector store down during the otherwise healthy query
\* "project update", the report's results are the keyword-only results,
\* errors has exactly one entry and success is false.
C3_VectorStoreDownScenario ==
    (/\ pc = "returned"
     /\ st.query = s_project_update
     /\ store = CleanRows
     /\ env.embedding = "ok"
     /\ env.store = "up"
     /\ env.vector_store.kind = "raised") =>
        /\ ids(Val(report).results) = ids(st.keyword_results)
        /\ Len(Val(report).errors) = 1
        /\ ~Val(report).success

\* C4: in every report search_emails returns, success is true if and only
\* if the errors list, which is the list the stages appended to, is empty.
C4_SuccessIffNoErrors ==
    pc = "returned" =>
        /\ Val(report).success <=> Len(Val(report).errors) = 0
        /\ Val(report).errors = st.errors

\* a call that returned a report with success false after two stages failed
C4_FailedReportReturned ==
    /\ pc = "returned"
    /\ ~Val(report).success
    /\ Len(Val(report).errors) = 2

\* C5: under fair scheduling every run reaches the end of FINALIZE, whichever
\* stages fail internally.
C5_EventuallyFinalized == <>(pc = "END")

\* FINALIZE has run in a call in which two stages recorded an error
C5_FinalizedAfterFailures ==
    /\ pc = "END"
    /\ Len(st.errors) = 2
    /\ st.total_final_results = Len(st.final_results)

C8_FusedIdsUniqueAndKnown ==
    pc = "apply_filters" =>
        /\ \A i, j \in 1..Len(st.final_results) :
              st.final_results[i].message_id = st.final_results[j].message_id => i = j
        /\ id_set(st.final_results)
             \subseteq id_set(st.keyword_results) \cup id_set(st.semantic_results)

\* FUSE has just run on two lists that share a message, the semantic list
\* naming one message twice, and left more than one entry
C8_FusedOverlappingLists ==
    /\ pc = "apply_filters"
    /\ id_set(st.keyword_results) \cap id_set(st.semantic_results) # {}
    /\ Len(st.semantic_results) > Cardinality(id_set(st.semantic_results))
    /\ Len(st.final_results) > 1

\* C9: a message present in keyword_results with score k and in
\* semantic_results with score s gets the fused score 0.6*s + 0.4*k and the
\* tag hybrid.
C9_BlendedScoreOfOverlap ==
    [][pc = "fuse_results" =>
         \A i \in 1..Len(st.keyword_results), j \in 1..Len(st.semantic_results) :
            st.keyword_results[i].message_id = st.semantic_results[j].message_id =>
               \A e \in entries_of(st'.final_results, st.keyword_results[i].message_id) :
                  /\ st'.final_results[e].relevance_score
                       = combined_score(st.semantic_results[j].relevance_score,
                                        st.keyword_results[i].relevance_score)
                  /\ st'.final_results[e].search_type = "hybrid"]_vars

\* C10: after fusion an entry is tagged hybrid iff its id is in both lists,
\* keyword iff only in keyword_results, semantic iff only in
\* semantic_results; an entry of one list only keeps that list's score; and
\* below the cap the fused list has exactly one entry per id of the union.
C10_TagsByOrigin ==
    [][pc = "fuse_results" =>
         LET K == st.keyword_results
             S == st.semantic_results
             F == st'.final_results
             union == id_set(K) \cup id_set(S)
         IN /\ \A e \in 1..Len(F) :
                  LET id == F[e].message_id IN
                  /\ F[e].search_type = "hybrid" <=> (id \in id_set(K) /\ id \in id_set(S))
                  /\ F[e].search_type = "keyword" <=> (id \in id_set(K) /\ id \notin id_set(S))
                  /\ F[e].search_type = "semantic" <=> (id \notin id_set(K) /\ id \in id_set(S))
                  /\ (id \in id_set(K) /\ id \notin id_set(S)) =>
                        \E i \in entries_of(K, id) : F[e].relevance_score = K[i].relevance_score
                  /\ (id \notin id_set(K) /\ id \in id_set(S)) =>
                        \E j \in entries_of(S, id) : F[e].relevance_score = S[j].relevance_score
            /\ Cardinality(union) <= st.max_results =>
                  /\ Len(F) = Cardinality(union)
                  /\ id_set(F) = union]_vars

s_sender0 == <<"s","e","n","d","e","r","0","@","e","x","a","m","p","l","e",".","c","o","m">>
s_emails_from_sender0 == <<"e","m","a","i","l","s"," ","f","r","o","m"," ">> \o s_sender0
s_important_invoices_from_december_2024 ==
    <<"i","m","p","o","r","t","a","n","t"," ","i","n","v","o","i","c","e","s"," ",
      "f","r","o","m"," ","d","e","c","e","m","b","e","r"," ","2","0","2","4">>
s_invoices == <<"i","n","v","o","i","c","e","s">>

C12_ScenarioA ==
    (st.query = s_emails_from_sender0 /\ pc # "parse_query") =>
        /\ st.filters.sender_emails = <<s_sender0>>
        /\ st.cleaned_query = <<>>
        /\ st.search_type = "keyword"
        /\ env.embedding = "not called"
        /\ env.vector_store.kind = "not called"

\* C13: parsing "important invoices from december 2024" yields
\* is_important true, date_from 2024-12-01T00:00:00, date_to
\* 2025-01-01T00:00:00 and the keyword list ["invoices"].
C13_ScenarioB ==
    (st.query = s_important_invoices_from_december_2024 /\ pc # "parse_query") =>
        /\ st.filters.is_important = Some(TRUE)
        /\ st.filters.date_from = Some(<<ymd2ord(2024, 12, 1), 0>>)
        /\ st.filters.date_to = Some(<<ymd2ord(2025, 1, 1), 0>>)
        /\ st.filters.keywords = <<s_invoices>>

\* C14: PARSE records no error for any query, a month name followed by any
\* 4-digit year included, and a query without filter pattern yields filters
\* with no sender, date, label or flag.
C14_ParseNeverFails ==
    pc = "generate_vector" =>
        /\ st.errors = <<>>
        /\ st.query = s_project_update =>
              /\ st.filters.sender_emails = <<>>
              /\ IsNone(st.filters.date_from) /\ IsNone(st.filters.date_to)
              /\ st.filters.labels = <<>>
              /\ IsNone(st.filters.has_attachments) /\ IsNone(st.filters.is_important)

\* C15: parsing the query of a call again, at whatever instant, yields the
\* filters (date_from and date_to included) and the cleaned_query the call's
\* own PARSE produced.
C15_ParseSameAtAnyInstant ==
    (pc \notin {"parse_query", "raised", "returned"} /\ st.errors = <<>>) =>
        /\ parse(st.query, clock).filters = st.filters
        /\ parse(st.query, clock).cleaned_query = st.cleaned_query

\* the nodes in the order of the pipeline, then END
StageOrder == <<"parse_query", "generate_vector", "keyword_search", "semantic_search",
                "fuse_results", "apply_filters", "finalize_results", "END">>

stage_fails_safe ==
    pc \in {StageOrder[k] : k \in 1..7} =>
       /\ Len(st.errors) <= Len(st'.errors)
       /\ SubSeq(st'.errors, 1, Len(st.errors)) = st.errors
       /\ (\/ pc = "generate_vector" /\ env'.embedding = "error"
           \/ pc = "keyword_search" /\ env'.store = "down"
           \/ pc = "semantic_search" /\ env'.vector_store.kind = "raised")
              => Len(st'.errors) = Len(st.errors) + 1
       /\ Len(st'.errors) > Len(st.errors) =>
              /\ st'.filters = st.filters
              /\ st'.cleaned_query = st.cleaned_query
              /\ st'.query_vector = st.query_vector
              /\ st'.keyword_results = st.keyword_results
              /\ st'.semantic_results = st.semantic_results
              /\ pc = "generate_vector" => st'.query_vector = <<>>
              /\ pc = "keyword_search" => st'.keyword_results = <<>>
              /\ pc = "semantic_search" => st'.semantic_results = <<>>
              /\ pc \in {"fuse_results", "apply_filters"} => st'.final_results = <<>>

\* C18: over every stage, errors before the stage is a prefix of errors after
\* it; a stage whose collaborator fails appends an error; and a stage that
\* appends an error leaves filters, cleaned_query, query_vector,
\* keyword_results and semantic_results as they were and its own output empty.
C18_ErrorsGrowStagesFailSafe == [][stage_fails_safe]_vars

\* a sender, date or label filter is set
narrowing_filter_set(f) ==
    \/ Len(f.sender_emails) > 0
    \/ ~IsNone(f.date_from)
    \/ ~IsNone(f.date_to)
    \/ Len(f.labels) > 0

\* C19: from FINALIZE on, the search type is FILTERED exactly when the cleaned
\* query is longer than 3 characters and a sender, date or label filter is set,
\* HYBRID exactly when it is longer than 3 characters and none of them is set,
\* and KEYWORD otherwise.
C19_SearchTypeAtFinalize ==
    filter_has_run =>
        /\ st.search_type = "filtered" <=>
               (Len(st.cleaned_query) > 3 /\ narrowing_filter_set(st.filters))
        /\ st.search_type = "hybrid" <=>
               (Len(st.cleaned_query) > 3 /\ ~narrowing_filter_set(st.filters))
        /\ st.search_type = "keyword" <=> Len(st.cleaned_query) <= 3

\* C20: once PARSE has resolved the search type KEYWORD, the embedding provider
\* and the vector store have not been called, query_vector and
\* semantic_results are empty, and the steps of EMBED and SEMANTIC change
\* neither the SearchState (so they append no error) nor what the
\* collaborators were asked.
C20_KeywordSkipsEmbedAndSemantic ==
    [][st.search_type = "keyword" =>
         /\ env.embedding = "not called" /\ env'.embedding = "not called"
         /\ env.vector_store.kind = "not called" /\ env'.vector_store.kind = "not called"
         /\ st.query_vector = <<>> /\ st'.query_vector = <<>>
         /\ st.semantic_results = <<>> /\ st'.semantic_results = <<>>
         /\ pc \in {"generate_vector", "semantic_search"} => st' = st /\ env' = env]_vars

\* a KEYWORD call with a non-empty cleaned query and both services present has
\* returned, with lexical results
C20_KeywordRunReturned ==
    /\ pc = "returned"
    /\ st.search_type = "keyword"
    /\ services
    /\ Len(st.cleaned_query) > 0
    /\ Len(st.keyword_results) > 0

\* The state a call reaches running alone: the stages applied in order to a
\* fresh SearchState, each given what the call's collaborators and the clock
\* answered (e).
alone_parse(query, account_id, max_results, start_time, e) ==
    parse_query(SearchState(query, account_id, max_results, start_time), Val(e.today))

alone_lexical(query, account_id, max_results, start_time, e) ==
    keyword_search(
        generate_query_vector(alone_parse(query, account_id, max_results, start_time, e),
                              services, e.embedding),
        e.store = "up", store)

alone_semantic(query, account_id, max_results, start_time, e) ==
    IF e.vector_store.kind = "not called"
    THEN semantic_search(alone_lexical(query, account_id, max_results, start_time, e),
                         services, [raised |-> FALSE, results |-> <<>>], start_time)
    ELSE semantic_search(alone_lexical(query, account_id, max_results, start_time, e),
                         services,
                         vector_store_response(e.vector_store, max_results, store),
                         Val(e.semantic_now))

alone_final(query, account_id, max_results, start_time, e) ==
    finalize_results(
        apply_filters(fuse_results(
            alone_semantic(query, account_id, max_results, start_time, e))),
        Val(e.finalize_now))

\* what C16 says of one step
calls_independent ==
    /\ first_call' # first_call => other' = other
    /\ other' # other => first_call' = first_call
    /\ (pc = "finalize_results" /\ pc' = "END") =>
          st' = alone_final(st.query, st.account_id, st.max_results, st.start_time, env')
    /\ (pc = "END" /\ pc' = "returned") => report' = Some(report_of(st))
    /\ (pc = "END" /\ pc' = "raised") => report_raises(st)
    /\ (other.pc = "finalize_results" /\ other'.pc = "END") =>
          other'.st = alone_final(other.query, other.account_id, other.max_results,
                                  other.st.start_time, other'.env)
    /\ (other.pc = "END" /\ other'.pc = "returned") =>
          other'.report = Some(report_of(other.st))
    /\ (other.pc = "END" /\ other'.pc = "raised") => report_raises(other.st)

\* C16: with the stages of two calls on one workflow instance interleaved in any
\* order, a step of one call changes nothing of the other call (its SearchState,
\* position, recorded answers and report), and the report each call returns is
\* the report of the state the stages reach when run alone, in order, on a
\* fresh SearchState with the answers that call's collaborators and the clock
\* gave it.
C16_CallsAreIndependent == [][calls_independent]_vars

\* both calls have returned results; the second call's vector search took
\* time, and ran after the first call was started and before it finalized
C16_InterleavedCallsReturned ==
    /\ pc = "returned"
    /\ other.pc = "returned"
    /\ ~IsNone(other.env.semantic_now)
    /\ dt_lt(st.start_time, Val(other.env.semantic_now))
    /\ env.finalize_now = other.env.semantic_now
    /\ Len(Val(report).results) > 0
    /\ Len(Val(other.report).results) > 0

\* the results of xs that pass the filters f, in the order of xs
passing(xs, f) == SelectSeq(xs, LAMBDA r : passes_all(r, f))

most_recent_ids(rows, account_id, limit) ==
    LET recent == take(sql_order({r \in rows : r.account_id = account_id}), limit)
    IN [i \in 1..Len(recent) |-> recent[i].id]

\* C22: when PARSE left no keyword and an empty cleaned query, LEXICAL returns
\* the account's most recent messages, up to max_results, newest first.
C22_ZeroKeywordMostRecent ==
    [][(/\ pc = "keyword_search"
        /\ st.filters.keywords = <<>>
        /\ st.cleaned_query = <<>>) =>
          ids(st'.keyword_results) = most_recent_ids(store, st.account_id, st.max_results)]_vars

\* the terms _keyword_search looks for
search_terms_of(state) ==
    IF Len(state.filters.keywords) > 0 THEN state.filters.keywords
    ELSE <<state.cleaned_query>>

\* C23: every result LEXICAL returned is a message of the queried account that
\* contains each of the supplied keywords, in any case, in its subject or in
\* its snippet.
C23_LexicalMatchesEveryKeyword ==
    pc = "semantic_search" =>
        \A i \in 1..Len(st.keyword_results) :
            \E row \in store :
                /\ row.id = st.keyword_results[i].message_id
                /\ row.account_id = st.account_id
                /\ \A k \in 1..Len(search_terms_of(st)) :
                      \/ term_in(search_terms_of(st)[k], row.subject)
                      \/ term_in(search_terms_of(st)[k], row.snippet)

\* term occurs in text (NULL counts as empty), whatever the case of either
occurs_in(term, text) ==
    str_contains(str_lower(IF IsNone(text) THEN <<>> ELSE Val(text)), str_lower(term))

\* twice the number of terms occurring in subject plus the number occurring in
\* snippet
weighted_matches(subject, snippet, terms) ==
    2 * Cardinality({k \in 1..Len(terms) : occurs_in(terms[k], subject)})
      + Cardinality({k \in 1..Len(terms) : occurs_in(terms[k], snippet)})

\* C24: the score _calculate_keyword_score returns is the weighted number of
\* matches (2 for a term in the subject, 1 for a term in the snippet) divided
\* by the number of terms, which lies between 0 and 3; for no terms it is 0.
C24_LexicalScore ==
    pc = "scored" =>
        /\ Val(report) = IF Len(st.search_terms) = 0 THEN rat(0, 1)
                         ELSE rat(weighted_matches(st.subject, st.snippet, st.search_terms),
                                  Len(st.search_terms))
        /\ ~rat_lt(Val(report), rat(0, 1))
        /\ ~rat_gt(Val(report), rat(3, 1))

\* two different terms, both in the subject and both in the snippet, have been
\* scored 3
C24_TwoTermsScored ==
    /\ pc = "scored"
    /\ Len(st.search_terms) = 2
    /\ st.search_terms[1] # st.search_terms[2]
    /\ Val(report) = rat(3, 1)

\* the entry of the merged id-to-result map for id, once FUSE has run: the
\* object of the first result naming id, of the keyword list if it has one
merged_entry(state, id) ==
    IF id \in id_set(state.keyword_results)
    THEN state.keyword_results[
             CHOOSE i \in entries_of(state.keyword_results, id) :
                 \A j \in entries_of(state.keyword_results, id) : i <= j]
    ELSE state.semantic_results[
             CHOOSE i \in entries_of(state.semantic_results, id) :
                 \A j \in entries_of(state.semantic_results, id) : i <= j]

merged_ids(state) == id_set(state.keyword_results) \cup id_set(state.semantic_results)

in_score_order(results) ==
    \A i \in 1..(Len(results) - 1) :
        ~rat_lt(results[i].relevance_score, results[i + 1].relevance_score)

\* fused is the limit highest-scoring entries of the merged map of state, in
\* non-increasing score order
top_of_merged(fused, state, limit) ==
    /\ in_score_order(fused)
    /\ Len(fused) = IF Cardinality(merged_ids(state)) < limit
                    THEN Cardinality(merged_ids(state)) ELSE limit
    /\ \A i \in 1..Len(fused) : fused[i] = merged_entry(state, fused[i].message_id)
    /\ \A i, j \in 1..Len(fused) : fused[i].message_id = fused[j].message_id => i = j
    /\ \A id \in merged_ids(state) \ id_set(fused) :
          \A i \in 1..Len(fused) :
              ~rat_gt(merged_entry(state, id).relevance_score, fused[i].relevance_score)

\* kept holds some of the entries of fused, in the order they have in fused
keeps_order(kept, fused) ==
    \A i, j \in 1..Len(kept) :
        i < j => \E a, b \in 1..Len(fused) :
                    a < b /\ fused[a] = kept[i] /\ fused[b] = kept[j]

\* what C25 says of one step
results_stay_ranked ==
    /\ pc = "fuse_results" => top_of_merged(st'.final_results, st', st.max_results)
    /\ pc = "apply_filters" => keeps_order(st'.final_results, st.final_results)
    /\ pc' = "returned" => in_score_order(Val(report').results)

\* C25: FUSE leaves the max_results highest-scoring entries of the merged map
\* in non-increasing score order, FILTER keeps the order of the entries it
\* keeps, and the results of a returned report are in non-increasing score
\* order.
C25_ResultsRanked == [][results_stay_ranked]_vars

\* a report with a result of higher score before one of lower score has been
\* returned, for a run whose merged map held more than max_results entries, one
\* of them found by both searches
C25_CutRankedReport ==
    /\ pc = "returned"
    /\ Len(Val(report).results) >= 2
    /\ rat_gt(Val(report).results[1].relevance_score,
              Val(report).results[2].relevance_score)
    /\ Cardinality(merged_ids(st)) > st.max_results
    /\ \E i \in 1..Len(st.final_results) : st.final_results[i].search_type = "hybrid"

s_Invoices_December_2024 ==
    <<"I","n","v","o","i","c","e","s"," ","D","e","c","e","m","b","e","r"," ","2","0","2","4">>

\* 2025-01-01 00:00:00 UTC, the date_to of "December 2024"
january_first == <<ymd2ord(2025, 1, 1), 0>>

\* what C26 says of the step of FILTER
month_bound_inclusive ==
    (/\ pc = "apply_filters"
     /\ st.query = s_Invoices_December_2024
     /\ st.filters.date_to = Some(january_first)) =>
        /\ \A i \in 1..Len(st.final_results) :
              st.final_results[i].date_sent = Some(january_first) =>
                 \E j \in 1..Len(st'.final_results) :
                     st'.final_results[j] = st.final_results[i]
        /\ \A j \in 1..Len(st'.final_results) :
              ~IsNone(st'.final_results[j].date_sent) =>
                 ~dt_gt(Val(st'.final_results[j].date_sent), january_first)

C27_AttachmentsWordStripped ==
    (st.query = s_attachments /\ pc # "parse_query") =>
        /\ st.filters.has_attachments = Some(TRUE)
        /\ st.filters.keywords = <<>>
        /\ st.cleaned_query = <<>>

\* C28: every result of a returned report is a message of the account the
\* call was made for.
C28_ResultsOfQueriedAccount ==
    pc = "returned" =>
        \A i \in 1..Len(Val(report).results) :
            \E row \in store :
                /\ row.id = Val(report).results[i].message_id
                /\ row.account_id = st.account_id

\* a label filter is active, or is_important or has_attachments is true
label_or_flag_filter_set(f) ==
    \/ Len(f.labels) > 0
    \/ f.is_important = Some(TRUE)
    \/ f.has_attachments = Some(TRUE)

s_invoices_december_0000 ==
    <<"i","n","v","o","i","c","e","s"," ","d","e","c","e","m","b","e","r"," ","0","0","0","0">>

\* PARSE recorded an error
parse_failed == Len(st.errors) > 0 /\ st.errors[1] = "Failed to parse query"

\* C30: when PARSE records an error, filters and cleaned_query keep their
\* initial empty values, the embedding service, the message store and the
\* vector store are never called, and the report has no results and
\* success false.
C30_ParseFailureSkipsCollaborators ==
    parse_failed =>
        /\ st.filters = EmptyFilters
        /\ st.cleaned_query = <<>>
        /\ env.embedding = "not called"
        /\ env.store = "not called"
        /\ env.store_calls = 0
        /\ env.vector_store.kind = "not called"
        /\ pc = "returned" =>
              /\ Val(report).results = <<>>
              /\ Val(report).total_results = 0
              /\ Val(report).success = FALSE

\* "invoices december 0000" returned its report, with the embedding service
\* configured and messages of the account in the store
C30_ParseFailureReturned ==
    /\ pc = "returned"
    /\ st.query = s_invoices_december_0000
    /\ parse_failed
    /\ services
    /\ \E row \in store : row.account_id = st.account_id

=============================================================================
